---- MODULE Spec2Model ----
(***************************************************************************)
(* Model of the notes API (src/src/crud.py, schemas.py, models.py,         *)
(* database.py).  Every request runs in its own coroutine with its own     *)
(* AsyncSession (database.py:21-23); a handler is split into steps at the  *)
(* points where it awaits the database, and the steps of different         *)
(* requests interleave.  SQLite executes every statement atomically; the   *)
(* sqlite3 driver opens a transaction only in front of INSERT / UPDATE /   *)
(* DELETE, so a SELECT is a step of its own and a flush+commit is one      *)
(* step.                                                                   *)
(***************************************************************************)
EXTENDS Integers, Sequences, FiniteSets, TLC

\* ---- bounds of the model -------------------------------------------------
MaxNotes == 3        \* largest primary key the model lets the table reach
MaxClock == 2        \* largest value of the wall clock
NumProcs == 2        \* requests that can be in flight at the same time
MaxRequests == 3     \* requests accepted in one behaviour of Spec
MaxSeqRequests == 4  \* requests accepted in one behaviour of SpecSeq

\* ---- values --------------------------------------------------------------
None == "<None>"          \* Python None / SQL NULL
Missing == "<missing>"    \* a JSON body without the key
JsonNull == "<null>"      \* a JSON body with the key set to null

Titles == {"", "a", "b"}
Contents == {"x"}
RawTitles == Titles \cup {Missing, JsonNull}
RawContents == Contents \cup {Missing, JsonNull}

Ids == 1..MaxNotes
Procs == 1..NumProcs
Skips == {-1, 0, 1, 2, 3}
Limits == {0, 1, 2, 100, 101}

LimitMin == 1
LimitMax == 100
HTTP_200_OK == 200
HTTP_201_CREATED == 201
HTTP_204_NO_CONTENT == 204
HTTP_404_NOT_FOUND == 404
HTTP_422_UNPROCESSABLE == 422
HTTP_500_INTERNAL == 500

VARIABLES
    table,      \* the notes table: primary key -> row, for the persisted rows
    now,        \* the wall clock read by datetime.now()
    procs,      \* per request slot: position in its handler and its locals
    response,   \* the last HTTP response sent
    nreq,       \* number of requests accepted so far
    assigned,   \* history: primary keys handed out by an INSERT so far
    inserted,   \* history: primary keys of the persisted rows, oldest first
    deleted     \* history: ids whose DELETE request has succeeded

vars == <<table, now, procs, response, nreq, assigned, inserted, deleted>>

\* ---- helpers -------------------------------------------------------------
Max(S) == CHOOSE x \in S : \A y \in S : y <= x

Min2(a, b) == IF a <= b THEN a ELSE b

Max2(a, b) == IF a >= b THEN a ELSE b

RECURSIVE SortedIds(_)
SortedIds(S) ==
    IF S = {} THEN <<>>
    ELSE LET m == CHOOSE x \in S : \A y \in S : x <= y
         IN <<m>> \o SortedIds(S \ {m})

Remove(seq, x) == SelectSeq(seq, LAMBDA e : e # x)

\* A request slot: pc is the position in the handler, title and content the
\* validated request body, snap the row as the SELECT loaded it, obj the ORM
\* object the handler holds (<<>> when there is none).
IdleProc ==
    [pc |-> "idle", note_id |-> 0, title |-> None, content |-> None,
     snap |-> <<>>, obj |-> <<>>]

NoResponse ==
    [op |-> "none", note_id |-> 0, status |-> 0, kind |-> "empty",
     detail |-> 0, body |-> <<>>]

\* A response carrying one note (response_model=Note).
NoteResponse(op, id, status, row) ==
    [op |-> op, note_id |-> id, status |-> status, kind |-> "note",
     detail |-> 0, body |-> <<row>>]

\* HTTPException(status_code=404, detail=f"Note with id {note_id} not found")
NotFound(op, id) ==
    [op |-> op, note_id |-> id, status |-> HTTP_404_NOT_FOUND,
     kind |-> "error", detail |-> id, body |-> <<>>]

\* Request validation failed before the handler ran.
Unprocessable(op, id) ==
    [op |-> op, note_id |-> id, status |-> HTTP_422_UNPROCESSABLE,
     kind |-> "error", detail |-> 0, body |-> <<>>]

\* An exception other than HTTPException left the handler.
ServerError(op, id) ==
    [op |-> op, note_id |-> id, status |-> HTTP_500_INTERNAL,
     kind |-> "error", detail |-> 0, body |-> <<>>]

\* ---- schemas.py ----------------------------------------------------------
\* Optional[str] = None: a missing key and an explicit null both give None.
OptionalStr(raw) == IF raw \in {Missing, JsonNull} THEN None ELSE raw

\* CreateNote: title: str is required and must be a string; any string passes.
CreateNoteValid(rawTitle) == rawTitle \notin {Missing, JsonNull}

\* Variant: the validator accepts every body.
validate_accepts_all(title, content) == TRUE

\* UpdateNote.validate_at_least_one_field
validate_at_least_one_field(title, content) ==
    ~(title = None /\ content = None)

\* ---- models.py -----------------------------------------------------------
\* id = Column(Integer, primary_key=True) on SQLite is an alias of the rowid
\* without AUTOINCREMENT: a new row gets the largest rowid in the table + 1.
NextRowId == IF DOMAIN table = {} THEN 1 ELSE Max(DOMAIN table) + 1

\* NoteModel(title=..., content=..., created_at=..., updated_at=...): the id
\* is not set (0) until the INSERT assigns it.
NoteModel(title, content, created_at, updated_at) ==
    [id |-> 0, title |-> title, content |-> content,
     created_at |-> created_at, updated_at |-> updated_at]

Init ==
    /\ table = <<>>
    /\ now = 0
    /\ procs = [p \in Procs |-> IdleProc]
    /\ response = NoResponse
    /\ nreq = 0
    /\ assigned = {}
    /\ inserted = <<>>
    /\ deleted = {}

\* The wall clock advances.
Tick ==
    /\ now < MaxClock
    /\ now' = now + 1
    /\ UNCHANGED <<table, procs, response, nreq, assigned, inserted, deleted>>

\* ---- POST /notes/ --------------------------------------------------------
\* Body validation, then lines 20-25: the two calls of datetime.now() read
\* the clock one after the other; d is what the clock advanced in between.
CreateNote(p, rawTitle, rawContent) ==
    /\ procs[p].pc = "idle"
    /\ nreq' = nreq + 1
    /\ IF ~CreateNoteValid(rawTitle)
       THEN /\ response' = Unprocessable("create", 0)
            /\ UNCHANGED <<table, now, procs, assigned, inserted, deleted>>
       ELSE /\ \E d \in 0..1 :
                /\ now + d <= MaxClock
                /\ now' = now + d
                /\ procs' = [procs EXCEPT ![p] =
                       [IdleProc EXCEPT
                          !.pc = "create_commit",
                          !.title = rawTitle,
                          !.content = OptionalStr(rawContent),
                          !.obj = <<NoteModel(rawTitle, OptionalStr(rawContent),
                                              now, now + d)>>]]
            /\ UNCHANGED <<table, response, assigned, inserted, deleted>>

\* db.add(db_note); await db.commit(): INSERT and COMMIT.
CreateCommit(p) ==
    /\ procs[p].pc = "create_commit"
    /\ NextRowId <= MaxNotes
    /\ LET id == NextRowId
           row == [procs[p].obj[1] EXCEPT !.id = id]
       IN /\ table' = (id :> row) @@ table
          /\ assigned' = assigned \cup {id}
          /\ inserted' = Append(inserted, id)
          /\ procs' = [procs EXCEPT ![p] =
                 [IdleProc EXCEPT !.pc = "create_refresh", !.note_id = id]]
    /\ UNCHANGED <<now, response, nreq, deleted>>

\* await db.refresh(db_note); return db_note
CreateRefresh(p) ==
    /\ procs[p].pc = "create_refresh"
    /\ LET id == procs[p].note_id
       IN response' = IF id \in DOMAIN table
                      THEN NoteResponse("create", id, HTTP_201_CREATED, table[id])
                      ELSE ServerError("create", id)
    /\ procs' = [procs EXCEPT ![p] = IdleProc]
    /\ UNCHANGED <<table, now, nreq, assigned, inserted, deleted>>

\* ---- GET /notes/ ---------------------------------------------------------
\* skip: int = Query(0, ge=0), limit: int = Query(100, ge=1, le=100)
QueryValid(skip, limit) == skip >= 0 /\ limit >= LimitMin /\ limit <= LimitMax

\* select(NoteModel) without ORDER BY: SQLite scans the table in rowid order.
SelectAll ==
    LET ids == SortedIds(DOMAIN table)
    IN [k \in 1..Len(ids) |-> table[ids[k]]]

\* Variant: the limit is applied to the table before the offset.
OffsetLimit_LimitFirst(rows, skip, limit) ==
    SubSeq(rows, skip + 1, Min2(Len(rows), limit))

\* .offset(skip).limit(limit)
OffsetLimit(rows, skip, limit) ==
    SubSeq(rows, skip + 1, Min2(Len(rows), skip + limit))

GetNotes(p, skip, limit) ==
    /\ procs[p].pc = "idle"
    /\ nreq' = nreq + 1
    /\ response' = IF ~QueryValid(skip, limit)
                   THEN Unprocessable("list", 0)
                   ELSE [op |-> "list", note_id |-> 0, status |-> HTTP_200_OK,
                         kind |-> "list", detail |-> 0,
                         body |-> OffsetLimit(SelectAll, skip, limit)]
    /\ UNCHANGED <<table, now, procs, assigned, inserted, deleted>>

\* ---- GET /notes/{note_id} -------------------------------------------------
\* Variant: without the check of line 47 a missing row is answered with a
\* default note.
GetNoteById_DefaultNote(p, note_id) ==
    /\ procs[p].pc = "idle"
    /\ nreq' = nreq + 1
    /\ response' = IF note_id \notin DOMAIN table
                   THEN NoteResponse("get", note_id, HTTP_200_OK,
                                     [NoteModel(None, None, 0, 0)
                                         EXCEPT !.id = note_id])
                   ELSE NoteResponse("get", note_id, HTTP_200_OK, table[note_id])
    /\ UNCHANGED <<table, now, procs, assigned, inserted, deleted>>

GetNoteById(p, note_id) ==
    /\ procs[p].pc = "idle"
    /\ nreq' = nreq + 1
    /\ response' = IF note_id \notin DOMAIN table
                   THEN NotFound("get", note_id)
                   ELSE NoteResponse("get", note_id, HTTP_200_OK, table[note_id])
    /\ UNCHANGED <<table, now, procs, assigned, inserted, deleted>>

\* ---- PUT /notes/{note_id} -------------------------------------------------
\* Variant: the fields are assigned without the "is not None" tests.
SetFields_Unconditional(note, title, content, ts) ==
    [note EXCEPT !.title = title, !.content = content, !.updated_at = ts]

\* Lines 64-69 on the loaded object: a field that is None is skipped.
SetFields(note, title, content, ts) ==
    [note EXCEPT !.title = IF title # None THEN title ELSE @,
                 !.content = IF content # None THEN content ELSE @,
                 !.updated_at = ts]

\* The flush writes the attributes whose value differs from the loaded one.
DirtyColumns(obj, loaded) ==
    {c \in {"title", "content", "updated_at"} : obj[c] # loaded[c]}

\* UPDATE notes SET <dirty columns> WHERE notes.id = ?
UpdateRow(row, obj, dirty) ==
    [c \in DOMAIN row |-> IF c \in dirty THEN obj[c] ELSE row[c]]

\* Body validation, then the SELECT of lines 57-59 and the check of line 61.
UpdateNote(p, note_id, rawTitle, rawContent) ==
    /\ procs[p].pc = "idle"
    /\ nreq' = nreq + 1
    /\ LET title == OptionalStr(rawTitle)
           content == OptionalStr(rawContent)
       IN IF ~validate_at_least_one_field(title, content)
          THEN /\ response' = Unprocessable("update", note_id)
               /\ UNCHANGED procs
          ELSE IF note_id \notin DOMAIN table
          THEN /\ response' = NotFound("update", note_id)
               /\ UNCHANGED procs
          ELSE /\ procs' = [procs EXCEPT ![p] =
                      [IdleProc EXCEPT !.pc = "update_apply",
                                       !.note_id = note_id,
                                       !.title = title,
                                       !.content = content,
                                       !.snap = <<table[note_id]>>]]
               /\ UNCHANGED response
    /\ UNCHANGED <<table, now, assigned, inserted, deleted>>

\* Lines 64-69: set the supplied fields and updated_at = datetime.now().
UpdateApply(p) ==
    /\ procs[p].pc = "update_apply"
    /\ procs' = [procs EXCEPT
           ![p].pc = "update_commit",
           ![p].obj = <<SetFields(procs[p].snap[1], procs[p].title,
                                  procs[p].content, now)>>]
    /\ UNCHANGED <<table, now, response, nreq, assigned, inserted, deleted>>

\* await db.commit(): flush the UPDATE (none when nothing is dirty) and
\* commit.  An UPDATE that matches no row raises StaleDataError.
UpdateCommit(p) ==
    /\ procs[p].pc = "update_commit"
    /\ LET id == procs[p].note_id
           obj == procs[p].obj[1]
           dirty == DirtyColumns(obj, procs[p].snap[1])
       IN IF dirty # {} /\ id \notin DOMAIN table
          THEN /\ response' = ServerError("update", id)
               /\ procs' = [procs EXCEPT ![p] = IdleProc]
               /\ UNCHANGED table
          ELSE /\ table' = IF dirty = {} THEN table
                           ELSE [table EXCEPT ![id] = UpdateRow(@, obj, dirty)]
               /\ procs' = [procs EXCEPT ![p].pc = "update_refresh"]
               /\ UNCHANGED response
    /\ UNCHANGED <<now, nreq, assigned, inserted, deleted>>

\* await db.refresh(note); return note
UpdateRefresh(p) ==
    /\ procs[p].pc = "update_refresh"
    /\ LET id == procs[p].note_id
       IN response' = IF id \in DOMAIN table
                      THEN NoteResponse("update", id, HTTP_200_OK, table[id])
                      ELSE ServerError("update", id)
    /\ procs' = [procs EXCEPT ![p] = IdleProc]
    /\ UNCHANGED <<table, now, nreq, assigned, inserted, deleted>>

\* ---- DELETE /notes/{note_id} ----------------------------------------------
\* The route declares no status_code and the handler returns None: the
\* response is 200 with the JSON body null.
DeleteResponse(note_id) ==
    [op |-> "delete", note_id |-> note_id, status |-> HTTP_200_OK,
     kind |-> "null", detail |-> 0, body |-> <<>>]

\* The SELECT of lines 80-82 and the check of line 83.
DeleteNote(p, note_id) ==
    /\ procs[p].pc = "idle"
    /\ nreq' = nreq + 1
    /\ IF note_id \notin DOMAIN table
       THEN /\ response' = NotFound("delete", note_id)
            /\ UNCHANGED procs
       ELSE /\ procs' = [procs EXCEPT ![p] =
                   [IdleProc EXCEPT !.pc = "delete_commit",
                                    !.note_id = note_id]]
            /\ UNCHANGED response
    /\ UNCHANGED <<table, now, assigned, inserted, deleted>>

\* await db.delete(note_to_delete); await db.commit(): DELETE ... WHERE
\* notes.id = ? and COMMIT; a DELETE that matches no row only warns.
DeleteCommit(p) ==
    /\ procs[p].pc = "delete_commit"
    /\ LET id == procs[p].note_id
       IN /\ table' = [i \in DOMAIN table \ {id} |-> table[i]]
          /\ inserted' = Remove(inserted, id)
          /\ deleted' = deleted \cup {id}
          /\ response' = DeleteResponse(id)
    /\ procs' = [procs EXCEPT ![p] = IdleProc]
    /\ UNCHANGED <<now, nreq, assigned>>

\* Requests arrive while fewer than MaxRequests have been accepted; up to
\* NumProcs of them are handled at the same time.
Accept ==
    \E p \in Procs :
        \/ \E t \in RawTitles, c \in RawContents : CreateNote(p, t, c)
        \/ \E s \in Skips, l \in Limits : GetNotes(p, s, l)
        \/ \E i \in Ids : GetNoteById(p, i)
        \/ \E i \in Ids, t \in RawTitles, c \in RawContents :
               UpdateNote(p, i, t, c)
        \/ \E i \in Ids : DeleteNote(p, i)

Next ==
    \/ Tick
    \/ nreq < MaxRequests /\ Accept
    \/ \E p \in Procs : CreateCommit(p)
    \/ \E p \in Procs : CreateRefresh(p)
    \/ \E p \in Procs : UpdateApply(p)
    \/ \E p \in Procs : UpdateCommit(p)
    \/ \E p \in Procs : UpdateRefresh(p)
    \/ \E p \in Procs : DeleteCommit(p)

Spec == Init /\ [][Next]_vars

\* One client that sends its requests one after the other, each after the
\* response to the one before.
SeqTitles == {"a", "b"}

SeqAccept ==
    \/ \E t \in SeqTitles : CreateNote(1, t, Missing)
    \/ \E s \in Skips, l \in Limits : GetNotes(1, s, l)
    \/ \E i \in Ids : GetNoteById(1, i)
    \/ \E i \in Ids, t \in {"b", Missing, JsonNull},
          c \in {"x", Missing, JsonNull} : UpdateNote(1, i, t, c)
    \/ \E i \in Ids : DeleteNote(1, i)

NextSeq ==
    \/ nreq < MaxSeqRequests /\ SeqAccept
    \/ CreateCommit(1)
    \/ CreateRefresh(1)
    \/ UpdateApply(1)
    \/ UpdateCommit(1)
    \/ UpdateRefresh(1)
    \/ DeleteCommit(1)

SpecSeq == Init /\ [][NextSeq]_vars

\* Requests on one note that overlap: the note is created, then updated and
\* deleted by up to NumProcs requests at the same time.
RaceTitles == {"a", "b"}

RaceContents == {"x", "y"}

RaceAccept ==
    \E p \in Procs :
        \/ CreateNote(p, "a", "x")
        \/ \E t \in RaceTitles \cup {Missing}, c \in RaceContents \cup {Missing} :
               UpdateNote(p, 1, t, c)
        \/ DeleteNote(p, 1)

NextRace ==
    \/ nreq < MaxRequests /\ RaceAccept
    \/ \E p \in Procs : CreateCommit(p)
    \/ \E p \in Procs : CreateRefresh(p)
    \/ \E p \in Procs : UpdateApply(p)
    \/ \E p \in Procs : UpdateCommit(p)
    \/ \E p \in Procs : UpdateRefresh(p)
    \/ \E p \in Procs : DeleteCommit(p)

SpecRace == Init /\ [][NextRace]_vars

\* ==== Properties ==========================================================

InUpdate(p) == procs[p].pc \in {"update_apply", "update_commit", "update_refresh"}

\* C1: every persisted note has a non-null, non-empty title (a Create with a
\* missing or empty title persists no row, no Update stores an empty title).
C1_TitleNeverEmpty ==
    \A i \in DOMAIN table : table[i].title \notin {None, ""}

\* C2: the persisted updated_at of a note never decreases from one state to
\* the next and is always >= the note's created_at.
C2_UpdatedAtMonotonic ==
    [][\A i \in DOMAIN table' :
          /\ table'[i].updated_at >= table'[i].created_at
          /\ i \in DOMAIN table =>
                 table'[i].updated_at >= table[i].updated_at]_vars

\* C3: the id a Create assigns differs from the id of every note created
\* before it, whether that note is still persisted or already deleted.
C3_IdNeverReassigned ==
    [][\A i \in DOMAIN table' \ DOMAIN table : i \notin assigned]_vars

\* C4: the note a Create persists has created_at equal to updated_at.
C4_CreatedEqualsUpdated ==
    [][\A i \in DOMAIN table' \ DOMAIN table :
          table'[i].created_at = table'[i].updated_at]_vars

\* What a step of the Update request in slot p may do to the table: only the
\* row with the requested id changes, and of that row only updated_at and the
\* fields supplied with a value; no field becomes null.
UpdateFrame(p) ==
    LET id == procs[p].note_id
        title == procs[p].title
        content == procs[p].content
    IN /\ DOMAIN table' = DOMAIN table
       /\ \A j \in DOMAIN table : j # id => table'[j] = table[j]
       /\ id \in DOMAIN table =>
            /\ table'[id].id = table[id].id
            /\ table'[id].created_at = table[id].created_at
            /\ table'[id].title \in {table[id].title, title}
            /\ table'[id].content \in {table[id].content, content}
            /\ title = None => table'[id].title = table[id].title
            /\ content = None => table'[id].content = table[id].content

\* C5: an Update changes only the fields supplied with a value and
\* updated_at: a field that is absent or null keeps its value and is never
\* reset to null, id and created_at of the note and every other row are left
\* unchanged.
C5_UpdateChangesOnlySupplied ==
    [][\A p \in Procs :
          /\ (InUpdate(p) /\ procs'[p] # procs[p]) => UpdateFrame(p)
          /\ (procs[p].pc = "idle" /\ procs'[p].pc = "update_apply") =>
                 table' = table]_vars

C5_Witness ==
    \E p \in Procs :
        /\ procs[p].pc = "update_refresh"
        /\ procs[p].title # None
        /\ procs[p].content = None
        /\ procs[p].note_id \in DOMAIN table
        /\ Cardinality(DOMAIN table) >= 2
        /\ procs[p].snap[1].title # procs[p].title
        /\ table[procs[p].note_id].title = procs[p].title
        /\ table[procs[p].note_id].content # None
        /\ table[procs[p].note_id].content = procs[p].snap[1].content

\* The response to a request for an id that has no row.
NotFoundOutcome(id) ==
    /\ response'.status = HTTP_404_NOT_FOUND
    /\ response'.kind = "error"
    /\ response'.detail = id
    /\ response'.body = <<>>
    /\ table' = table

\* C6: GetById, Update (with a field supplied) and Delete on an id that is
\* not persisted answer 404 with a message naming exactly that id, never a
\* note, and leave the table unchanged.
C6_AbsentIdNotFound ==
    [][\A p \in Procs, i \in Ids :
          i \notin DOMAIN table =>
            /\ GetNoteById(p, i) => NotFoundOutcome(i)
            /\ DeleteNote(p, i) => NotFoundOutcome(i)
            /\ \A t \in RawTitles, c \in RawContents :
                 (~(OptionalStr(t) = None /\ OptionalStr(c) = None)
                    /\ UpdateNote(p, i, t, c)) => NotFoundOutcome(i)]_vars

C6_Witness ==
    /\ response.status = HTTP_404_NOT_FOUND
    /\ response.op \in {"get", "update", "delete"}
    /\ response.detail = response.note_id
    /\ response.note_id \notin DOMAIN table
    /\ table # <<>>

\* C7: an Update with neither title nor content (absent or null) is answered
\* 422 for every id, existing or not, and changes neither the table nor any
\* request in flight.
C7_EmptyUpdateRejected ==
    [][\A p \in Procs, i \in Ids :
          \A t \in {Missing, JsonNull}, c \in {Missing, JsonNull} :
              UpdateNote(p, i, t, c) =>
                  /\ response'.status = HTTP_422_UNPROCESSABLE
                  /\ response'.body = <<>>
                  /\ UNCHANGED <<table, procs>>]_vars

C7_Witness ==
    /\ response.op = "update"
    /\ response.status = HTTP_422_UNPROCESSABLE
    /\ response.note_id \in DOMAIN table

\* C8: after a Delete of an id has succeeded, a GetById of that id answers
\* 404.
C8_GetAfterDeleteNotFound ==
    [][\A p \in Procs, i \in Ids :
          (i \in deleted /\ GetNoteById(p, i)) =>
              response'.status = HTTP_404_NOT_FOUND]_vars

\* C9: a Delete answers 204 with an empty body, or 404 when the id is absent.
C9_DeleteStatus204 ==
    (response.op = "delete" /\ response.status # HTTP_404_NOT_FOUND) =>
        (response.status = HTTP_204_NO_CONTENT /\ response.kind = "empty")

\* C10: for skip >= 0 and limit in 1..100, List on a table of N notes returns
\* min(limit, max(0, N - skip)) notes, the ones at positions skip+1 ..
\* skip+limit of the insertion order (empty when skip >= N).
C10_ListPage ==
    [][\A p \in Procs, s \in Skips, l \in Limits :
          (s >= 0 /\ l >= 1 /\ l <= 100 /\ GetNotes(p, s, l)) =>
              LET N == Cardinality(DOMAIN table)
                  body == response'.body
              IN /\ response'.status = HTTP_200_OK
                 /\ Len(inserted) = N
                 /\ Len(body) = Min2(l, Max2(0, N - s))
                 /\ \A k \in 1..Len(body) : body[k] = table[inserted[s + k]]]_vars

\* Three notes inserted into the empty table, then List(skip=1, limit=1)
\* answered with the second of them.
C10_Witness ==
    /\ response.op = "list"
    /\ response.status = HTTP_200_OK
    /\ inserted = <<1, 2, 3>>
    /\ deleted = {}
    /\ response.body = <<table[2]>>

\* Every Update and Delete ends with one of the outcomes Note, Deleted or
\* NotFound (or the rejection of its body), also when its row is deleted
\* between its read and its commit.
EndsWithOutcome ==
    response.op \in {"update", "delete"} =>
        response.status \in {HTTP_200_OK, HTTP_204_NO_CONTENT,
                             HTTP_404_NOT_FOUND, HTTP_422_UNPROCESSABLE}

\* Title and content of row after the Update in slot p and then the one in
\* slot q have been applied to it, one after the other.
SerialResult(row, p, q) ==
    LET r1 == [row EXCEPT
                 !.title = IF procs[p].title # None THEN procs[p].title ELSE @,
                 !.content = IF procs[p].content # None
                             THEN procs[p].content ELSE @]
        r2 == [r1 EXCEPT
                 !.title = IF procs[q].title # None THEN procs[q].title ELSE @,
                 !.content = IF procs[q].content # None
                             THEN procs[q].content ELSE @]
    IN <<r2.title, r2.content>>

\* Two Updates of one id that read the same row and have both committed leave
\* the title and content that one of their two serial orders produces.
SerialOutcome ==
    \A p, q \in Procs :
        (/\ p # q
         /\ procs[p].pc = "update_refresh"
         /\ procs[q].pc = "update_refresh"
         /\ procs[p].note_id = procs[q].note_id
         /\ procs[p].snap = procs[q].snap
         /\ procs[p].note_id \in DOMAIN table) =>
            LET row == table[procs[p].note_id]
                snap == procs[p].snap[1]
            IN <<row.title, row.content>> \in
                   {SerialResult(snap, p, q), SerialResult(snap, q, p)}

\* C11: Update and Delete are atomic units of work: however their reads and
\* commits on one id interleave, every request ends with an outcome (Note,
\* Deleted or NotFound, NotFound when the row of an Update is deleted between
\* its read and its commit) and the persisted title and content are those of
\* some serial execution of the requests.
C11_UpdateDeleteAtomic == EndsWithOutcome /\ SerialOutcome

====
